---- MODULE Spec2Model ----
(***************************************************************************)
(* Binviz: n-gram histograms of a file's bytes, Shannon entropy, frequency  *)
(* ranking, the 256x256 co-occurrence rasters, and the batch               *)
(* ("full analysis") loop.  Modelled from src/src/lib.rs and                *)
(* src/src/main.rs.                                                         *)
(*                                                                         *)
(* f64 values are modelled as follows.  A ratio of two integers is kept as  *)
(* the exact rational (numerator and denominator); 0.0/0.0 is the value    *)
(* NaN.  log2 is a binary fixed-point approximation with LogBits           *)
(* fractional bits.  The sign of a zero is not modelled.                    *)
(***************************************************************************)
EXTENDS Integers, Sequences, FiniteSets, TLC

\* ------------------------------------------------------------------ bounds
\* Byte values 0..MaxByte stand for u8.
MaxByte == 2
\* Most distinct keys of a histogram handed to the rasterizers.
MaxKeys == 2
\* Counts of such a histogram: 1..MaxCount, or BigCount (a large file).
MaxCount == 3
BigCount == 200000
\* The batch: files 1..MaxFiles, each unreadable or holding at most BatchLen
\* bytes of 0..BatchByte, and at most MaxEdits changes to the files on disk
\* while the batch runs.
MaxFiles == 2
BatchLen == 2
BatchByte == 1
MaxEdits == 1
\* Longest buffer (file content) of the pure-function specification.
MaxLen == 5
\* Largest window length (dimension) handed to calculate_histogram.
MaxDim == 3
\* Fractional bits of the fixed-point log2.
LogBits == 8
\* Largest top-k a caller of the frequency ranking asks for.
MaxTopK == 3

\* ------------------------------------------------------- program constants
\* u16::MAX
MAX_CHANNEL == 65535
\* u8::MAX
U8_MAX == 255

\* f64: a NaN, or the rational num/den (den > 0).
NaN == [nan |-> TRUE, num |-> 0, den |-> 1]
F64(n, d) == [nan |-> FALSE, num |-> n, den |-> d]
\* A fixed-point f64 (entropy): v in units of 2^-LogBits.
Fixed(v) == F64(v, 2 ^ LogBits)

Bytes == 0..MaxByte
BuffersUpTo(n) == UNION {[1..k -> Bytes] : k \in 0..n}
Buffers == BuffersUpTo(MaxLen)

Min(a, b) == IF a <= b THEN a ELSE b
Max(a, b) == IF a >= b THEN a ELSE b

\* ------------------------------------------------------------- Histogram<T>
\* type Histogram<T> = BTreeMap<Vec<T>, usize>: a function from the keys
\* present to their counts; BTreeMap iterates in ascending key order, and
\* Vec<u8> is ordered lexicographically.
EmptyHistogram == [k \in {} |-> 0]

LexLess(a, b) ==
    \/ \E i \in 1..Min(Len(a), Len(b)) :
          /\ a[i] < b[i]
          /\ \A j \in 1..(i - 1) : a[j] = b[j]
    \/ /\ Len(a) < Len(b)
       /\ \A j \in 1..Len(a) : a[j] = b[j]

MinKey(S) == CHOOSE k \in S : \A o \in S \ {k} : LexLess(k, o)

RECURSIVE KeysAscending(_)
KeysAscending(S) ==
    IF S = {} THEN << >>
    ELSE <<MinKey(S)>> \o KeysAscending(S \ {MinKey(S)})

\* histogram.keys(): the keys in ascending order.
Keys(h) == KeysAscending(DOMAIN h)

RECURSIVE SumOver(_, _)
SumOver(h, S) ==
    IF S = {} THEN 0
    ELSE LET k == CHOOSE x \in S : TRUE IN h[k] + SumOver(h, S \ {k})

\* histogram.values().sum()
ValuesSum(h) == SumOver(h, DOMAIN h)

\* histogram.values().len()
ValuesLen(h) == Cardinality(DOMAIN h)

\* ------------------------------------------------------ calculate_histogram
\* A slip: the window that ends at the last byte is left out.
WindowsDroppingLast(buf, dimension) ==
    [i \in 1..Max(0, Len(buf) - dimension) |->
        SubSeq(buf, i, i + dimension - 1)]

\* buf.windows(dimension): every contiguous window, none when the buffer is
\* shorter than the window.
Windows(buf, dimension) ==
    [i \in 1..Max(0, Len(buf) - dimension + 1) |->
        SubSeq(buf, i, i + dimension - 1)]

\* histogram.entry(key).and_modify(|x| *x += 1).or_insert(1)
Increment(h, key) ==
    IF key \in DOMAIN h
    THEN [h EXCEPT ![key] = @ + 1]
    ELSE [k \in DOMAIN h \cup {key} |-> IF k = key THEN 1 ELSE h[k]]

RECURSIVE CountWindows(_, _, _)
CountWindows(h, ws, i) ==
    IF i > Len(ws) THEN h
    ELSE CountWindows(Increment(h, ws[i]), ws, i + 1)

\* The histogram of an already read buffer (lib.rs 20, 26-32).
calculate_histogram(buf, dimension) ==
    CountWindows(EmptyHistogram, Windows(buf, dimension), 1)

\* ------------------------------------------------------------------ entropy
MantissaScale == 2 ^ 14

FloorLog2(n) == CHOOSE e \in 0..16 : 2 ^ e <= n /\ n < 2 ^ (e + 1)

RECURSIVE FractionBits(_, _)
FractionBits(m, k) ==
    IF k = 0 THEN 0
    ELSE LET sq == (m * m) \div MantissaScale
         IN  IF sq >= 2 * MantissaScale
             THEN 2 ^ (k - 1) + FractionBits(sq \div 2, k - 1)
             ELSE FractionBits(sq, k - 1)

\* log2 of a positive integer, in units of 2^-LogBits.
Log2Fixed(n) ==
    FloorLog2(n) * (2 ^ LogBits)
        + FractionBits((n * MantissaScale) \div (2 ^ FloorLog2(n)), LogBits)

\* probability.log2() * probability with probability = freq / total, in
\* units of 2^-LogBits; 0/0 is NaN and log2(0) * 0 = -inf * 0 is NaN.
calculate_entropy(freq, total) ==
    IF freq = 0 THEN NaN
    ELSE Fixed(((Log2Fixed(freq) - Log2Fixed(total)) * freq) \div total)

\* f64 addition of fixed-point values.
AddF64(a, b) == IF a.nan \/ b.nan THEN NaN ELSE Fixed(a.num + b.num)

\* A slip: the sum returned without the final negation.
KeepSign(x) == x

\* -entropy (line 50)
Negate(x) == IF x.nan THEN NaN ELSE Fixed(0 - x.num)

\* .map(|(_, freq)| calculate_entropy(freq / total)).sum::<f64>()
RECURSIVE SumTerms(_, _, _)
SumTerms(h, S, total) ==
    IF S = {} THEN Fixed(0)
    ELSE LET k == CHOOSE x \in S : TRUE
         IN  AddF64(calculate_entropy(h[k], total), SumTerms(h, S \ {k}, total))

\* Entropy in bits per n-gram, in units of 2^-LogBits, or NaN.
calculate_entropy_histogram(h) ==
    Negate(SumTerms(h, DOMAIN h, ValuesSum(h)))

\* ----------------------------------------------------------------- ranking
\* histogram.into_iter().collect(): the (key, count) pairs in key order.
Entries(h) == [i \in 1..Len(Keys(h)) |-> <<Keys(h)[i], h[Keys(h)[i]]>>]

\* A slip: a comparator that also puts y first when the counts are equal.
GoesBeforeOrTied(x, y) == y[2] <= x[2]

\* The comparator of line 55: y.1.cmp(x.1) is Less, i.e. x goes before y.
GoesBefore(x, y) == y[2] < x[2]

\* Stable insertion: e goes after every element it does not go before.
RECURSIVE InsertStable(_, _)
InsertStable(sorted, e) ==
    IF sorted = << >> THEN <<e>>
    ELSE IF GoesBefore(e, sorted[Len(sorted)])
         THEN InsertStable(SubSeq(sorted, 1, Len(sorted) - 1), e)
                  \o <<sorted[Len(sorted)]>>
         ELSE sorted \o <<e>>

RECURSIVE SortBy(_, _)
SortBy(v, n) ==
    IF n = 0 THEN << >> ELSE InsertStable(SortBy(v, n - 1), v[n])

get_most_frequent_bytes(h) == SortBy(Entries(h), Len(Entries(h)))

\* ------------------------------------------------------------------ rasters
\* floor(a * b / d) and the remainder, by doubling, so that no intermediate
\* value leaves the range of 32-bit integers: <<quotient, remainder>>.
RECURSIVE MulDiv(_, _, _)
MulDiv(a, b, d) ==
    IF b = 0 THEN <<0, 0>>
    ELSE LET half == MulDiv(a, b \div 2, d)
             odd  == b % 2
             t    == 2 * half[2] + odd * (a % d)
         IN  <<2 * half[1] + odd * (a \div d) + t \div d, t % d>>

\* (total as f64) / (len as f64): 0.0 / 0.0 is NaN.
AvgTotal(total, len) == IF len = 0 THEN NaN ELSE F64(total, len)

\* A slip: a cast that wraps modulo 2^16 instead of saturating.
WrapU16(q) == q % (MAX_CHANNEL + 1)

\* `value as u16` of a non-negative f64 whose integer part is q: the
\* fraction is dropped and the result saturates at u16::MAX.
CastU16(q) == Min(q, MAX_CHANNEL)

\* freq / avg_total * u16::MAX (line 109) and freq * u16::MAX / avg_total
\* (line 135), then `as u16`.  The exact value is freq * len * 65535 / total.
\* The f64 product is that value up to rounding error: where the exact value
\* is an integer and the ratio freq / avg_total is not, the product may fall
\* just under it (under = TRUE), and the cast then yields one less.
Brightness(freq, total, len, under) ==
    LET qr    == MulDiv(freq * len, MAX_CHANNEL, total)
        ratio == (freq * len) % total = 0
    IN  CastU16(IF qr[2] = 0 /\ ~ratio /\ under THEN qr[1] - 1 ELSE qr[1])

\* The keys whose f64 brightness may fall under its exact (integer) value.
MayUndershoot(h) ==
    {k \in DOMAIN h :
        /\ MulDiv(h[k] * ValuesLen(h), MAX_CHANNEL, ValuesSum(h))[2] = 0
        /\ (h[k] * ValuesLen(h)) % ValuesSum(h) # 0}

\* (slice[2] as f64) * (u16::MAX as f64) / (u8::MAX as f64), as u16.
ScaleByte(z) == CastU16((z * MAX_CHANNEL) \div U8_MAX)

\* The raster's coordinates, cut down to the byte values in use.
Coordinates == Bytes \X Bytes

\* ImageBuffer::new(256, 256): every channel zero.
NewImage(channels) == [c \in Coordinates |-> [i \in 1..channels |-> 0]]

\* A slip: a pixel already written is kept instead of replaced.
PutPixelOnce(image, x, y, pixel) ==
    IF \E i \in DOMAIN image[<<x, y>>] : image[<<x, y>>][i] # 0
    THEN image
    ELSE [image EXCEPT ![<<x, y>>] = pixel]

\* image.put_pixel(x, y, pixel)
PutPixel(image, x, y, pixel) == [image EXCEPT ![<<x, y>>] = pixel]

\* Luma([brightness as u16])
LumaPixel(h, slice, under) ==
    <<Brightness(h[slice], ValuesSum(h), ValuesLen(h), slice \in under)>>

\* Rgb([brightness_1 as u16, 0, brightness_2 as u16])
RgbPixel(h, slice, under) ==
    <<ScaleByte(slice[3]),
      0,
      Brightness(h[slice], ValuesSum(h), ValuesLen(h), slice \in under)>>

\* for slice in dihistogram.keys() { ... put_pixel ... } (lines 107-113)
RECURSIVE PutLuma(_, _, _, _, _)
PutLuma(image, h, ks, i, under) ==
    IF i > Len(ks) THEN image
    ELSE PutLuma(PutPixel(image, ks[i][1], ks[i][2], LumaPixel(h, ks[i], under)),
                 h, ks, i + 1, under)

\* for slice in trihistogram.keys() { ... put_pixel ... } (lines 131-140)
RECURSIVE PutRgb(_, _, _, _, _)
PutRgb(image, h, ks, i, under) ==
    IF i > Len(ks) THEN image
    ELSE PutRgb(PutPixel(image, ks[i][1], ks[i][2], RgbPixel(h, ks[i], under)),
                h, ks, i + 1, under)

generate_image(h, under) ==
    [image     |-> PutLuma(NewImage(1), h, Keys(h), 1, under),
     total     |-> ValuesSum(h),
     avg_total |-> AvgTotal(ValuesSum(h), ValuesLen(h))]

generate_color_image(h, under) ==
    [image     |-> PutRgb(NewImage(3), h, Keys(h), 1, under),
     total     |-> ValuesSum(h),
     avg_total |-> AvgTotal(ValuesSum(h), ValuesLen(h))]

\* ---------------------------------------------------------------- the state
VARIABLES
    buf,         \* the bytes read from the file
    dimension,   \* the window length of `histogram`
    histogram,   \* the histogram in hand
    phase,       \* what has been computed from it
    entropy,     \* calculate_entropy_histogram's result
    ranking,     \* get_most_frequent_bytes's result
    wanted,      \* the top-k the caller asked for, -1 when none
    raster,      \* generate_image's / generate_color_image's result
    files,       \* full_analysis's argument: the paths, in order
    disk,        \* each file as it is on disk now
    idx,         \* the position in `files` of the file being analysed
    pc,          \* where full_analysis is in its loop body
    rows,        \* the rows display_entropies has added to its table
    output,      \* what has been written under output/<file stem>/
    edits        \* how often a file was changed on disk during the run

commandVars ==
    <<buf, dimension, histogram, phase, entropy, ranking, wanted, raster>>
batchVars == <<files, disk, idx, pc, rows, output, edits>>
vars == <<commandVars, batchVars>>

NoRaster == [image |-> NewImage(1), total |-> 0, avg_total |-> F64(0, 1)]

FileIds == 1..MaxFiles
Unreadable == [readable |-> FALSE, bytes |-> << >>]
Readable(b) == [readable |-> TRUE, bytes |-> b]
NoOutput == [written |-> {}, entropy |-> << >>, most_frequent |-> << >>,
             image |-> NewImage(1)]

\* No batch is running.
BatchIdle ==
    /\ files = << >>
    /\ disk = [f \in FileIds |-> Unreadable]
    /\ idx = 1
    /\ pc = "done"
    /\ rows = << >>
    /\ output = [f \in FileIds |-> NoOutput]
    /\ edits = 0

\* No subcommand is running.
CommandIdle ==
    /\ buf = << >>
    /\ dimension = 0
    /\ histogram = EmptyHistogram
    /\ phase = "idle"
    /\ entropy = Fixed(0)
    /\ ranking = << >>
    /\ wanted = -1
    /\ raster = NoRaster

\* ----------------------------- the subcommands on one readable file (Spec)
Init ==
    /\ buf \in Buffers
    /\ dimension = 0
    /\ histogram = EmptyHistogram
    /\ phase = "read"
    /\ entropy = Fixed(0)
    /\ ranking = << >>
    /\ wanted = -1
    /\ raster = NoRaster
    /\ BatchIdle

\* calculate_histogram(&file, n) on a readable file.
CalculateHistogram(n) ==
    /\ phase = "read"
    /\ dimension' = n
    /\ histogram' = calculate_histogram(buf, n)
    /\ phase' = "histogram"
    /\ UNCHANGED <<buf, entropy, ranking, wanted, raster, batchVars>>

\* calculate_entropy_histogram(&histogram) (main.rs 85, lib.rs 68)
CalculateEntropyHistogram ==
    /\ phase = "histogram"
    /\ entropy' = calculate_entropy_histogram(histogram)
    /\ phase' = "entropy"
    /\ UNCHANGED <<buf, dimension, histogram, ranking, wanted, raster, batchVars>>

\* The Frequency subcommand (main.rs 116-134): the caller may want only the
\* top k entries, but neither the subcommand nor get_most_frequent_bytes
\* takes a count, so the whole ranking is produced whatever k is.
DisplayMostFrequent(k) ==
    /\ phase = "histogram"
    /\ dimension = 1
    /\ wanted' = k
    /\ ranking' = get_most_frequent_bytes(histogram)
    /\ phase' = "ranked"
    /\ UNCHANGED <<buf, dimension, histogram, entropy, raster, batchVars>>

\* generate_image(&dihistogram) (main.rs 162)
GenerateImage ==
    /\ phase = "histogram"
    /\ dimension = 2
    /\ \E under \in SUBSET MayUndershoot(histogram) :
          raster' = generate_image(histogram, under)
    /\ phase' = "luma"
    /\ UNCHANGED <<buf, dimension, histogram, entropy, ranking, wanted,
                 batchVars>>

\* generate_color_image(&trihistogram) (main.rs 143)
GenerateColorImage ==
    /\ phase = "histogram"
    /\ dimension = 3
    /\ \E under \in SUBSET MayUndershoot(histogram) :
          raster' = generate_color_image(histogram, under)
    /\ phase' = "rgb"
    /\ UNCHANGED <<buf, dimension, histogram, entropy, ranking, wanted,
                 batchVars>>

Next ==
    \/ \E n \in 1..MaxDim : CalculateHistogram(n)
    \/ CalculateEntropyHistogram
    \/ \E k \in {-1} \cup (1..MaxTopK) : DisplayMostFrequent(k)
    \/ GenerateImage
    \/ GenerateColorImage

Spec == Init /\ [][Next]_vars

\* ------------------------- the rasterizers on any histogram (SpecRaster)
RECURSIVE SubsetsUpTo(_, _)
SubsetsUpTo(S, n) ==
    IF n = 0 THEN {{}}
    ELSE LET P == SubsetsUpTo(S, n - 1)
         IN  P \cup {p \cup {x} : p \in P, x \in S}

CountSample == (1..MaxCount) \cup {BigCount}

\* The histograms with keys of n bytes, at most MaxKeys of them.
Histograms(n) ==
    UNION {[K -> CountSample] : K \in SubsetsUpTo([1..n -> Bytes], MaxKeys)}

InitRaster ==
    /\ buf = << >>
    /\ dimension \in {2, 3}
    /\ histogram \in Histograms(dimension)
    /\ phase = "histogram"
    /\ entropy = Fixed(0)
    /\ ranking = << >>
    /\ wanted = -1
    /\ raster = NoRaster
    /\ BatchIdle

NextRaster == GenerateImage \/ GenerateColorImage

SpecRaster == InitRaster /\ [][NextRaster]_vars

\* --------------------------------------------------- full_analysis (SpecBatch)
BatchBuffers ==
    {b \in BuffersUpTo(BatchLen) : \A i \in 1..Len(b) : b[i] <= BatchByte}
Contents == {Unreadable} \cup {Readable(b) : b \in BatchBuffers}

\* The lists of distinct paths.
FileLists ==
    {l \in UNION {[1..n -> FileIds] : n \in 0..MaxFiles} :
        \A i, j \in 1..Len(l) : i # j => l[i] # l[j]}

\* One row of display_entropies's table (lines 67-74), the entropy in units
\* of 2^-LogBits.
EntropyRow(bytes, i) ==
    LET e == calculate_entropy_histogram(calculate_histogram(bytes, i))
    IN  [dimension |-> i, entropy |-> e,
         rel_entropy |-> IF e.nan THEN NaN ELSE F64(e.num, e.den * 8 * i)]

\* format!("{:.5}", freq / total), in units of 10^-5.
FormatProbability(freq, total) ==
    (2 * freq * 100000 + total) \div (2 * total)

\* The rows of display_most_frequent's table (lines 81-95).
display_most_frequent(h) ==
    LET most_freq == get_most_frequent_bytes(h)
    IN  [i \in 1..Len(most_freq) |->
            [rank |-> i - 1, byte |-> most_freq[i][1][1],
             probability |-> FormatProbability(most_freq[i][2], ValuesSum(h))]]

InitBatch ==
    /\ CommandIdle
    /\ files \in FileLists
    /\ disk \in [FileIds -> Contents]
    /\ idx = 1
    /\ pc = IF files = << >> THEN "done" ELSE "folder"
    /\ rows = << >>
    /\ output = [f \in FileIds |-> NoOutput]
    /\ edits = 0

\* An expect() that fails: the process panics and full_analysis is over.
Panic ==
    /\ pc' = "panicked"
    /\ UNCHANGED <<files, disk, idx, rows, output, edits>>

\* fs::write(..).expect(..) / image.save(..).expect(..) of one artifact.
Write(name, value, next) ==
    \/ /\ output' = [output EXCEPT ![files[idx]] =
                        [@ EXCEPT !.written = @ \cup {name}, ![name] = value]]
       /\ pc' = next
    \/ /\ pc' = "panicked"
       /\ UNCHANGED output

\* Lines 148-158: the output folder of the file, created when absent.
CreateFolder ==
    /\ pc = "folder"
    /\ \/ /\ pc' = "entropy"
          /\ UNCHANGED <<files, disk, idx, rows, output, edits>>
       \/ Panic
    /\ UNCHANGED commandVars

\* One turn of display_entropies's loop (lines 66-75): the file is opened
\* and read again; after the third row the table is written (161-163).
DisplayEntropies ==
    /\ pc = "entropy"
    /\ IF ~disk[files[idx]].readable
       THEN Panic
       ELSE LET table == Append(rows,
                            EntropyRow(disk[files[idx]].bytes, Len(rows) + 1))
            IN  IF Len(table) < 3
                THEN /\ rows' = table
                     /\ UNCHANGED <<files, disk, idx, pc, output, edits>>
                ELSE /\ rows' = << >>
                     /\ Write("entropy", table, "frequency")
                     /\ UNCHANGED <<files, disk, idx, edits>>
    /\ UNCHANGED commandVars

\* Lines 166-172: the file is read again for the frequency table.
Frequency ==
    /\ pc = "frequency"
    /\ IF ~disk[files[idx]].readable
       THEN Panic
       ELSE /\ Write("most_frequent",
                     display_most_frequent(
                         calculate_histogram(disk[files[idx]].bytes, 1)),
                     "visualize")
            /\ UNCHANGED <<files, disk, idx, rows, edits>>
    /\ UNCHANGED commandVars

\* Lines 175-186: the file is read again for the image; then the next file.
Visualize ==
    /\ pc = "visualize"
    /\ IF ~disk[files[idx]].readable
       THEN Panic
       ELSE LET h == calculate_histogram(disk[files[idx]].bytes, 2)
            IN  /\ \E under \in SUBSET MayUndershoot(h) :
                      Write("image", generate_image(h, under).image,
                            IF idx = Len(files) THEN "done" ELSE "folder")
                /\ idx' = IF pc' = "panicked" THEN idx ELSE idx + 1
                /\ UNCHANGED <<files, disk, rows, edits>>
    /\ UNCHANGED commandVars

\* Another process changes, removes or locks a file of the batch while
\* full_analysis runs.
ModifyFile(f, content) ==
    /\ pc \notin {"done", "panicked"}
    /\ edits < MaxEdits
    /\ \E i \in 1..Len(files) : files[i] = f
    /\ disk[f] # content
    /\ disk' = [disk EXCEPT ![f] = content]
    /\ edits' = edits + 1
    /\ UNCHANGED <<files, idx, pc, rows, output, commandVars>>

NextBatch ==
    \/ CreateFolder
    \/ DisplayEntropies
    \/ Frequency
    \/ Visualize
    \/ \E f \in FileIds, content \in Contents : ModifyFile(f, content)

SpecBatch == InitBatch /\ [][NextBatch]_vars

\* ================================================================== claims
\* ------------------------------------------------------------------------
\* C1: for every buffer and window length n >= 1, the counts of
\* calculate_histogram sum to max(0, len - n + 1); the histogram is empty
\* when len < n; every key has n bytes; every count is >= 1.
C1_HistogramCounts ==
    phase # "read" =>
        /\ ValuesSum(histogram) = Max(0, Len(buf) - dimension + 1)
        /\ (Len(buf) < dimension => DOMAIN histogram = {})
        /\ \A k \in DOMAIN histogram :
              Len(k) = dimension /\ histogram[k] >= 1

\* A histogram of a buffer longer than the window, with a repeated key.
C1_Witness ==
    /\ phase = "histogram"
    /\ Len(buf) > dimension
    /\ \E k \in DOMAIN histogram : histogram[k] >= 2
    /\ Cardinality(DOMAIN histogram) >= 2

\* ------------------------------------------------------------------------
\* C3: rasterizing an empty histogram returns an all-zero raster with
\* total = 0 and average = 0 (no undefined average).
C3_EmptyRasterAverageZero ==
    (phase \in {"luma", "rgb"} /\ DOMAIN histogram = {}) =>
        /\ \A c \in Coordinates : \A i \in DOMAIN raster.image[c] :
              raster.image[c][i] = 0
        /\ raster.total = 0
        /\ ~raster.avg_total.nan
        /\ raster.avg_total.num = 0

\* ------------------------------------------------------------------------
\* C4 as stated: every observed key (x, y) with count c gets the pixel
\* round(c / average * 65535) clipped to 65535 (an f64 product that falls
\* just under an exact integer value is allowed for).
RoundedBrightness(c, total, len) ==
    Min((2 * c * len * MAX_CHANNEL + total) \div (2 * total), MAX_CHANNEL)

C4_PixelIsRounded ==
    phase = "luma" =>
        \A k \in DOMAIN histogram :
            LET c     == histogram[k]
                total == ValuesSum(histogram)
                len   == ValuesLen(histogram)
                p     == raster.image[<<k[1], k[2]>>][1]
            IN  \/ p = RoundedBrightness(c, total, len)
                \/ /\ (c * len * MAX_CHANNEL) % total = 0
                   /\ p = RoundedBrightness(c, total, len) - 1

\* C4 as amended: the pixel is c / average * 65535 with the fraction
\* dropped (never rounded up), clipped to 65535: it is 65535 when the count
\* is the average or above it, and otherwise floor(c * len * 65535 / total),
\* or one less where that value is an exact integer; the average reported
\* is total / number of distinct keys.
C4_PixelIsTruncated ==
    (phase = "luma" /\ DOMAIN histogram # {}) =>
        LET total == ValuesSum(histogram)
            len   == ValuesLen(histogram)
        IN  /\ raster.total = total
            /\ raster.avg_total = F64(total, len)
            /\ \A k \in DOMAIN histogram :
                  LET c == histogram[k]
                      p == raster.image[<<k[1], k[2]>>][1]
                      v == c * len * MAX_CHANNEL
                  IN  /\ p <= MAX_CHANNEL
                      /\ (c * len >= total => p = MAX_CHANNEL)
                      /\ (c * len < total =>
                            /\ p * total <= v
                            /\ v <= (p + 1) * total
                            /\ (v % total # 0 => v < (p + 1) * total))

\* One key above the average (saturated) and one whose exact brightness has
\* a fraction of at least one half, which is dropped.
C4_Witness ==
    /\ phase = "luma"
    /\ \E k \in DOMAIN histogram :
          /\ histogram[k] * ValuesLen(histogram) > ValuesSum(histogram)
          /\ raster.image[<<k[1], k[2]>>][1] = MAX_CHANNEL
    /\ \E k \in DOMAIN histogram :
          LET v == histogram[k] * ValuesLen(histogram) * MAX_CHANNEL
          IN  /\ 2 * (v % ValuesSum(histogram)) >= ValuesSum(histogram)
              /\ raster.image[<<k[1], k[2]>>][1] = v \div ValuesSum(histogram)

\* ------------------------------------------------------------------------
\* C5: in generate_color_image's raster a pixel (x, y) has a non-zero
\* channel if and only if some key (x, y, z) is in the histogram.
C5_ObservedIffNonZero ==
    phase = "rgb" =>
        \A c \in Coordinates :
            (\E i \in 1..3 : raster.image[c][i] # 0)
                <=> (\E z \in Bytes : <<c[1], c[2], z>> \in DOMAIN histogram)

\* ------------------------------------------------------------------------
\* C6: get_most_frequent_bytes returns every (byte, count) entry of the
\* histogram exactly once, by count descending, equal counts by ascending
\* byte value.
C6_RankingOrder ==
    phase = "ranked" =>
        /\ Len(ranking) = Cardinality(DOMAIN histogram)
        /\ \A k \in DOMAIN histogram :
              Cardinality({i \in 1..Len(ranking) :
                              ranking[i] = <<k, histogram[k]>>}) = 1
        /\ \A i, j \in 1..Len(ranking) :
              i < j =>
                 /\ ranking[i][2] >= ranking[j][2]
                 /\ (ranking[i][2] = ranking[j][2]
                        => ranking[i][1][1] < ranking[j][1][1])

\* A ranking that moved a larger byte in front and holds a tie.
C6_Witness ==
    /\ phase = "ranked"
    /\ Len(ranking) >= 3
    /\ \E i \in 1..(Len(ranking) - 1) :
          /\ ranking[i][2] > ranking[i + 1][2]
          /\ ranking[i][1][1] > ranking[i + 1][1][1]
    /\ \E i \in 1..(Len(ranking) - 1) : ranking[i][2] = ranking[i + 1][2]

\* ------------------------------------------------------------------------
\* C7: with a top-k given the ranking returned is the first min(k, d)
\* entries of the full ranking (d distinct bytes); with none, all d.
C7_TopKTruncates ==
    phase = "ranked" =>
        LET full == get_most_frequent_bytes(histogram)
            d    == Cardinality(DOMAIN histogram)
        IN  ranking = SubSeq(full, 1, IF wanted = -1 THEN d ELSE Min(wanted, d))

\* ------------------------------------------------------------------------
\* C8: calculate_entropy_histogram is never NaN, is >= 0, and is 0 exactly
\* when the histogram is empty or has one distinct key.
C8_EntropyNonNegative ==
    phase = "entropy" =>
        /\ ~entropy.nan
        /\ entropy.num >= 0
        /\ (entropy.num = 0 <=> Cardinality(DOMAIN histogram) <= 1)

\* The entropy of a histogram with several keys of unequal counts.
C8_Witness ==
    /\ phase = "entropy"
    /\ \E k, l \in DOMAIN histogram : histogram[k] < histogram[l]
    /\ entropy.num > 0

\* ------------------------------------------------------------------------
\* C10: where several keys (x, y, z) share (x, y), the pixel generate_color_image
\* leaves at (x, y) is that of the key with the largest z: its z scaled into
\* the first channel and the intensity of its own count in the third; the
\* other keys at (x, y) count only toward total and average.
C10_LargestZWins ==
    phase = "rgb" =>
        LET total == ValuesSum(histogram)
            len   == ValuesLen(histogram)
        IN  /\ raster.total = total
            /\ \A k \in DOMAIN histogram :
                  (\A o \in DOMAIN histogram :
                      (o[1] = k[1] /\ o[2] = k[2]) => o[3] <= k[3])
                  =>
                  LET p == raster.image[<<k[1], k[2]>>]
                      v == histogram[k] * len * MAX_CHANNEL
                  IN  /\ p[1] * U8_MAX = k[3] * MAX_CHANNEL
                      /\ p[2] = 0
                      /\ (histogram[k] * len >= total => p[3] = MAX_CHANNEL)
                      /\ (histogram[k] * len < total =>
                            /\ p[3] * total <= v
                            /\ v <= (p[3] + 1) * total
                            /\ (v % total # 0 => v < (p[3] + 1) * total))

\* Two keys at one (x, y) whose counts give different intensities; the pixel
\* shows the larger z and its intensity only.
C10_Witness ==
    /\ phase = "rgb"
    /\ \E k, o \in DOMAIN histogram :
          /\ o[1] = k[1] /\ o[2] = k[2] /\ o[3] < k[3]
          /\ histogram[o] * ValuesLen(histogram) >= ValuesSum(histogram)
          /\ histogram[k] * ValuesLen(histogram) < ValuesSum(histogram)
          /\ raster.image[<<k[1], k[2]>>][1] = ScaleByte(k[3])
          /\ raster.image[<<k[1], k[2]>>][3] < MAX_CHANNEL

\* ------------------------------------------------------------------------
\* C2: in a batch run a failure on one file does not abort the batch: when
\* full_analysis is over, every other file of the list (that can be read)
\* has its three artifacts.
AllArtifacts == {"entropy", "most_frequent", "image"}

C2_BatchContinues ==
    pc \in {"done", "panicked"} =>
        \A i \in 1..Len(files) :
            \/ pc = "panicked" /\ i = idx
            \/ ~disk[files[i]].readable
            \/ output[files[i]].written = AllArtifacts

\* ------------------------------------------------------------------------
\* C9: the three artifacts of a file analysed in a batch run describe the
\* same byte contents, also when the file changes on disk meanwhile: there
\* is one buffer of which they are the entropy table, the frequency table
\* and the image.
ArtifactsOf(bytes) ==
    [written       |-> AllArtifacts,
     entropy       |-> [i \in 1..3 |-> EntropyRow(bytes, i)],
     most_frequent |-> display_most_frequent(calculate_histogram(bytes, 1)),
     image         |-> generate_image(calculate_histogram(bytes, 2), {}).image]

ConsistentArtifacts == {ArtifactsOf(b) : b \in BuffersUpTo(BatchLen + 1)}

C9_ArtifactsOfOneBuffer ==
    \A i \in 1..Len(files) :
        (i < idx \/ pc = "done") => output[files[i]] \in ConsistentArtifacts

====
